---- MODULE Spec2Model ----
(***************************************************************************)
(* Caesar ELO: the rating engine (submit_comparison), the comparison-pair  *)
(* selector (get_comparison_pair) and the place aggregator                 *)
(* (search_places_text, called directly or by aggregate_places), modelled  *)
(* from src/backend.                                                       *)
(*                                                                         *)
(* Floats are modelled in binary fixed point: a rating, an expected score  *)
(* and a delta are integers counting units of 1/Scale.  Optional values    *)
(* (Python's Optional[int]) are sequences: <<>> is None, <<x>> is x.       *)
(***************************************************************************)
EXTENDS Integers, Sequences, FiniteSets, TLC

VARIABLES
    websites,       \* table websites: id -> row (ids are 1..n, autoincrement)
    comparisons,    \* table comparisons, in insertion order
    last,           \* the last request served and its response
    prev,           \* the two tables as they were before the last request
    accepted,       \* the submissions answered 200 so far, in order
    sessions,       \* submit_comparison on concurrent sessions: what each
                    \* session has loaded and not yet committed
    caller,         \* who called search_places_text: "direct" or "endpoint"
    search_queries, \* table of SearchQuery rows, in insertion order
    place_rows,     \* table of Place rows, in insertion order
    http,           \* the response of aggregate_places_endpoint
    scrape_jobs,    \* table scrape_jobs: id -> row
    tasks,          \* the background task of each job: queued, scraping, ended
    added,          \* the number of websites each job has stored
    pc,             \* search_places_text: idle, awaiting, returned or raised
    args,           \* its arguments query, min_rating and language_code
    max_results,    \* its argument max_results
    all_places,     \* its list of PlaceResult
    next_page_token,\* its continuation token
    requests,       \* the bodies of the page requests posted so far
    fetched,        \* the pages received with status 200, in order
    responses,      \* what each page request ended in, in order
    api_key,        \* whether settings.google_maps_api_key is set
    result,         \* the list it returned
    error           \* the exception it raised

eloVars == <<websites, comparisons, last, prev, accepted>>

endpointVars == <<search_queries, place_rows, http>>

placesVars == <<caller, endpointVars, pc, args, max_results, all_places,
                next_page_token, requests, fetched, responses, api_key,
                result, error>>

sessionVars == <<sessions>>

scrapeVars == <<scrape_jobs, tasks, added>>

vars == <<eloVars, placesVars, sessionVars, scrapeVars>>

----------------------------------------------------------------------------
(* Bounds of the model *)

MaxWebsites == 2
MaxComparisons == 2
MaxJobs == 2
MaxScraped == 2
MaxResultsBound == 3
PageSizeMax == 2
CountMax == 2

(* Program constants *)

K == 32

Scale == 2^15

Ln10 == (23026 * Scale) \div 10000

ExpTerms == 8

None == <<>>

Some(x) == <<x>>

----------------------------------------------------------------------------
(* Inputs *)

WebsiteIds == 1..(MaxWebsites + 1)

WinnerIds == {None} \cup {Some(i) : i \in 0..(MaxWebsites + 1)}

(* URLs are opaque strings: the k-th distinct URL the store has seen is
   named k, so a request carries a stored URL or the next new one *)

Urls(ws) == 1..(Len(ws) + 1)

----------------------------------------------------------------------------
(* Python truthiness of an Optional[int]: None and 0 are false *)

Truthy(opt) == opt # None /\ opt[1] # 0

(* A new Website row: the given url and the column defaults *)

NewWebsite(url) ==
    [url |-> url, elo_rating |-> 1000 * Scale,
     matches_played |-> 0, wins |-> 0, losses |-> 0]

(* e ** y for a fixed-point y, by its Taylor series *)

RECURSIVE ExpSeries(_, _, _)
ExpSeries(y, term, k) ==
    IF k > ExpTerms THEN 0
    ELSE term + ExpSeries(y, (term * y) \div (Scale * k), k + 1)

(* 10 ** x for a fixed-point x *)

Pow10(x) == ExpSeries((x * Ln10) \div Scale, Scale, 1)

expected_a(rating_a, rating_b) ==
    (Scale * Scale) \div (Scale + Pow10((rating_b - rating_a) \div 400))

expected_b(ea) == Scale - ea

(* Variant of elo_change_a with the two outcomes exchanged *)

elo_change_a_swapped(winner_id, a_id, ea) ==
    IF ~Truthy(winner_id) THEN 0
    ELSE IF winner_id[1] = a_id THEN K * (0 - ea)
    ELSE K * (Scale - ea)

elo_change_a(winner_id, a_id, ea) ==
    IF ~Truthy(winner_id) THEN 0
    ELSE IF winner_id[1] = a_id THEN K * (Scale - ea)
    ELSE K * (0 - ea)

(* Variant of elo_change_b that scores B as the winner in both outcomes *)

elo_change_b_copied(winner_id, a_id, eb) ==
    IF ~Truthy(winner_id) THEN 0
    ELSE IF winner_id[1] = a_id THEN K * (Scale - eb)
    ELSE K * (Scale - eb)

elo_change_b(winner_id, a_id, eb) ==
    IF ~Truthy(winner_id) THEN 0
    ELSE IF winner_id[1] = a_id THEN K * (0 - eb)
    ELSE K * (Scale - eb)

(* Variant of DecisiveUpdate that assigns website_b's new rating from
   website_a's change *)

DecisiveUpdate_b_by_a(ws, a_id, b_id, winner_id, change_a, change_b) ==
    LET s1 == IF winner_id[1] = a_id
              THEN [ws EXCEPT ![a_id].wins = @ + 1]
              ELSE [ws EXCEPT ![a_id].losses = @ + 1]
        s2 == IF winner_id[1] = a_id
              THEN [s1 EXCEPT ![b_id].losses = @ + 1]
              ELSE [s1 EXCEPT ![b_id].wins = @ + 1]
        s3 == [s2 EXCEPT ![a_id].elo_rating = @ + change_a]
        s4 == [s3 EXCEPT ![b_id].elo_rating = @ + change_a]
        s5 == [s4 EXCEPT ![a_id].matches_played = @ + 1]
    IN  [s5 EXCEPT ![b_id].matches_played = @ + 1]

(* Variant of DecisiveUpdate without website_b.matches_played += 1 *)

DecisiveUpdate_forgets_b(ws, a_id, b_id, winner_id, change_a, change_b) ==
    LET s1 == IF winner_id[1] = a_id
              THEN [ws EXCEPT ![a_id].wins = @ + 1]
              ELSE [ws EXCEPT ![a_id].losses = @ + 1]
        s2 == IF winner_id[1] = a_id
              THEN [s1 EXCEPT ![b_id].losses = @ + 1]
              ELSE [s1 EXCEPT ![b_id].wins = @ + 1]
        s3 == [s2 EXCEPT ![a_id].elo_rating = @ + change_a]
        s4 == [s3 EXCEPT ![b_id].elo_rating = @ + change_b]
    IN  [s4 EXCEPT ![a_id].matches_played = @ + 1]

(* The rows after the decisive branch of submit_comparison.  website_a and
   website_b are the session's objects for the two ids: one and the same
   object when the ids are equal, so the updates apply one after another. *)

DecisiveUpdate(ws, a_id, b_id, winner_id, change_a, change_b) ==
    LET s1 == IF winner_id[1] = a_id
              THEN [ws EXCEPT ![a_id].wins = @ + 1]
              ELSE [ws EXCEPT ![a_id].losses = @ + 1]
        s2 == IF winner_id[1] = a_id
              THEN [s1 EXCEPT ![b_id].losses = @ + 1]
              ELSE [s1 EXCEPT ![b_id].wins = @ + 1]
        s3 == [s2 EXCEPT ![a_id].elo_rating = @ + change_a]
        s4 == [s3 EXCEPT ![b_id].elo_rating = @ + change_b]
        s5 == [s4 EXCEPT ![a_id].matches_played = @ + 1]
    IN  [s5 EXCEPT ![b_id].matches_played = @ + 1]

(* Variant of ApplyOutcome with the matches_played increments outside the
   block *)

ApplyOutcome_dedented(ws, a_id, b_id, winner_id, change_a, change_b) ==
    IF Truthy(winner_id)
    THEN DecisiveUpdate(ws, a_id, b_id, winner_id, change_a, change_b)
    ELSE LET s5 == [ws EXCEPT ![a_id].matches_played = @ + 1]
         IN  [s5 EXCEPT ![b_id].matches_played = @ + 1]

(* The rows after submit_comparison's "if comparison.winner_id:" block *)

ApplyOutcome(ws, a_id, b_id, winner_id, change_a, change_b) ==
    IF Truthy(winner_id)
    THEN DecisiveUpdate(ws, a_id, b_id, winner_id, change_a, change_b)
    ELSE ws

(* The response status of submit_comparison *)

SubmitStatus(ws, a_id, b_id, winner_id) ==
    IF a_id \notin DOMAIN ws \/ b_id \notin DOMAIN ws THEN 404
    ELSE IF Truthy(winner_id) /\ winner_id[1] \notin {a_id, b_id} THEN 400
    ELSE 200

(* Variant of Sample2 that may pick one position twice *)

Sample2_with_replacement(ids) == ids \X ids

(* random.sample(websites, 2): two different positions of the list *)

Sample2(ids) == {s \in ids \X ids : s[1] # s[2]}

----------------------------------------------------------------------------
(* The database after Base.metadata.create_all: both tables empty *)

(* last: the operation and status of the last request; the request and the
   response body are recorded when the status is 200 *)

Nothing == [x |-> 0]

Response(op, status, req, resp) ==
    [op |-> op, status |-> status, req |-> req, resp |-> resp]

Rejected(op, status) == Response(op, status, Nothing, Nothing)

NoRequest == Rejected("none", 0)

InitElo ==
    /\ websites = <<>>
    /\ comparisons = <<>>
    /\ last = NoRequest
    /\ prev = [websites |-> <<>>, comparisons |-> <<>>]
    /\ accepted = <<>>

Snapshot == [websites |-> websites, comparisons |-> comparisons]

(* POST /api/websites *)

create_website(url) ==
    /\ Len(websites) < MaxWebsites
    /\ prev' = Snapshot
    /\ IF \E i \in DOMAIN websites : websites[i].url = url
       THEN /\ last' = Rejected("create_website", 400)
            /\ UNCHANGED websites
       ELSE /\ websites' = Append(websites, NewWebsite(url))
            /\ last' = Response("create_website", 200, [url |-> url],
                                 [id |-> Len(websites) + 1])
    /\ UNCHANGED <<comparisons, accepted>>
    /\ UNCHANGED <<placesVars, sessionVars, scrapeVars>>

(* GET /api/compare *)

get_comparison_pair ==
    /\ prev' = Snapshot
    /\ IF Len(websites) < 2
       THEN last' = Rejected("get_comparison_pair", 400)
       ELSE \E selected \in Sample2(DOMAIN websites) :
                last' = Response("get_comparison_pair", 200, Nothing,
                                 [website_a |-> selected[1],
                                  website_b |-> selected[2]])
    /\ UNCHANGED <<websites, comparisons, accepted>>
    /\ UNCHANGED <<placesVars, sessionVars, scrapeVars>>

(* POST /api/compare *)

submit_comparison(a_id, b_id, winner_id) ==
    LET req == [website_a_id |-> a_id, website_b_id |-> b_id,
                winner_id |-> winner_id]
        status == SubmitStatus(websites, a_id, b_id, winner_id)
    IN
    /\ Len(comparisons) < MaxComparisons
    /\ prev' = Snapshot
    /\ UNCHANGED <<placesVars, sessionVars, scrapeVars>>
    /\ IF status # 200
       THEN /\ last' = Rejected("submit_comparison", status)
            /\ UNCHANGED <<websites, comparisons, accepted>>
       ELSE LET ea == expected_a(websites[a_id].elo_rating,
                                 websites[b_id].elo_rating)
                eb == expected_b(ea)
                change_a == elo_change_a(winner_id, a_id, ea)
                change_b == elo_change_b(winner_id, a_id, eb)
                db_comparison ==
                    [id |-> Len(comparisons) + 1,
                     website_a_id |-> a_id, website_b_id |-> b_id,
                     winner_id |-> winner_id,
                     elo_change_a |-> change_a, elo_change_b |-> change_b]
            IN  /\ websites' = ApplyOutcome(websites, a_id, b_id, winner_id,
                                             change_a, change_b)
                /\ comparisons' = Append(comparisons, db_comparison)
                /\ accepted' = Append(accepted, req)
                /\ last' = Response("submit_comparison", 200, req,
                                     db_comparison)

(* submit_comparison is a plain def: FastAPI runs each request on a thread
   of its pool, each with the Session of its own get_db.  A request loads
   its two Website rows, and its commit flushes one UPDATE per row, setting
   the columns whose value differs from the one loaded, and the INSERT of
   the Comparison. *)

SessionIds == {1, 2}

IdleSession == [pc |-> "idle"]

InitSessions == sessions = [s \in SessionIds |-> IdleSession]

(* The two queries and the checks that follow them *)

load(s, a_id, b_id, winner_id) ==
    /\ sessions[s].pc = "idle"
    /\ IF SubmitStatus(websites, a_id, b_id, winner_id) # 200
       THEN UNCHANGED sessions
       ELSE sessions' = [sessions EXCEPT ![s] =
                [pc |-> "loaded",
                 req |-> [website_a_id |-> a_id, website_b_id |-> b_id,
                          winner_id |-> winner_id],
                 website_a |-> websites[a_id],
                 website_b |-> websites[b_id]]]
    /\ UNCHANGED <<eloVars, placesVars, scrapeVars>>

(* The row an UPDATE leaves: the columns the session changed take the
   session's value, the others keep the stored one *)

Flushed(stored, loaded, changed) ==
    [url |-> stored.url,
     elo_rating |-> IF changed.elo_rating # loaded.elo_rating
                    THEN changed.elo_rating ELSE stored.elo_rating,
     matches_played |-> IF changed.matches_played # loaded.matches_played
                        THEN changed.matches_played
                        ELSE stored.matches_played,
     wins |-> IF changed.wins # loaded.wins
              THEN changed.wins ELSE stored.wins,
     losses |-> IF changed.losses # loaded.losses
                THEN changed.losses ELSE stored.losses]

(* The rest of the request: the rating update on the loaded objects, the
   Comparison, db.commit() *)

commit(s) ==
    LET req == sessions[s].req
        a_id == req.website_a_id
        b_id == req.website_b_id
        loaded == [websites EXCEPT ![a_id] = sessions[s].website_a,
                                   ![b_id] = sessions[s].website_b]
        ea == expected_a(loaded[a_id].elo_rating, loaded[b_id].elo_rating)
        eb == expected_b(ea)
        change_a == elo_change_a(req.winner_id, a_id, ea)
        change_b == elo_change_b(req.winner_id, a_id, eb)
        changed == ApplyOutcome(loaded, a_id, b_id, req.winner_id,
                                change_a, change_b)
        db_comparison ==
            [id |-> Len(comparisons) + 1,
             website_a_id |-> a_id, website_b_id |-> b_id,
             winner_id |-> req.winner_id,
             elo_change_a |-> change_a, elo_change_b |-> change_b]
    IN
    /\ sessions[s].pc = "loaded"
    /\ Len(comparisons) < MaxComparisons
    /\ prev' = Snapshot
    /\ websites' = [i \in DOMAIN websites |->
                       IF i \in {a_id, b_id}
                       THEN Flushed(websites[i], loaded[i], changed[i])
                       ELSE websites[i]]
    /\ comparisons' = Append(comparisons, db_comparison)
    /\ accepted' = Append(accepted, req)
    /\ last' = Response("submit_comparison", 200, req, db_comparison)
    /\ sessions' = [sessions EXCEPT ![s] = IdleSession]
    /\ UNCHANGED <<placesVars, scrapeVars>>

ConcurrentNext ==
    \/ \E url \in Urls(websites) : create_website(url)
    \/ \E s \in SessionIds, a_id \in WebsiteIds, b_id \in WebsiteIds,
          winner_id \in WinnerIds :
           load(s, a_id, b_id, winner_id)
    \/ \E s \in SessionIds : commit(s)

----------------------------------------------------------------------------
(* start_scrape_job (api/routes.py) and run_scrape_job (tasks.py) *)

InitScrape ==
    /\ scrape_jobs = <<>>
    /\ tasks = <<>>
    /\ added = <<>>

(* POST /api/scrape: the new row, and the task handed to BackgroundTasks *)

NewScrapeJob ==
    [status |-> "pending", websites_found |-> 0, error_message |-> None,
     completed_at |-> None]

start_scrape_job ==
    /\ Len(scrape_jobs) < MaxJobs
    /\ scrape_jobs' = Append(scrape_jobs, NewScrapeJob)
    /\ tasks' = Append(tasks, "queued")
    /\ added' = Append(added, 0)
    /\ UNCHANGED <<eloVars, placesVars, sessionVars>>

(* run_scrape_job up to the call of the scraper: the job is found, set to
   running and committed *)

run_scrape_job(job_id) ==
    /\ tasks[job_id] = "queued"
    /\ scrape_jobs' = [scrape_jobs EXCEPT ![job_id].status = "running"]
    /\ tasks' = [tasks EXCEPT ![job_id] = "scraping"]
    /\ UNCHANGED added
    /\ UNCHANGED <<eloVars, placesVars, sessionVars>>

(* What scrape_websites_from_location returns: one entry per place with a
   websiteUri, so a URL may come twice and may be stored already.  New URLs
   are named in the order they appear *)

ScrapeResults(ws) ==
    {data \in UNION {[1..n -> 1..(Len(ws) + MaxScraped)] :
                         n \in 0..MaxScraped} :
        \A i \in DOMAIN data : \A url \in (Len(ws) + 1)..(data[i] - 1) :
            \E k \in 1..(i - 1) : data[k] = url}

(* The entries that pass the duplicate check: the session does not
   autoflush, so the query sees the stored rows only *)

NotStored(ws, data) ==
    SelectSeq(data, LAMBDA url : \A i \in DOMAIN ws : ws[i].url # url)

(* Whether the INSERTs of the commit meet the unique constraint on url *)

Unique(urls) ==
    \A i \in DOMAIN urls : \A k \in DOMAIN urls :
        i # k => urls[i] # urls[k]

(* The scraper has returned: the loop over websites_data and the commit.
   When the commit raises IntegrityError its transaction is rolled back,
   and the handler's own db.commit() raises on the session that was not
   rolled back by the handler: the row stays as the first commit left it *)

scraped(job_id, data) ==
    LET new == NotStored(websites, data)
    IN
    /\ tasks[job_id] = "scraping"
    /\ tasks' = [tasks EXCEPT ![job_id] = "ended"]
    /\ IF Unique(new)
       THEN /\ websites' =
                   websites \o [i \in 1..Len(new) |-> NewWebsite(new[i])]
            /\ added' = [added EXCEPT ![job_id] = Len(new)]
            /\ scrape_jobs' = [scrape_jobs EXCEPT
                   ![job_id].status = "completed",
                   ![job_id].websites_found = Len(new),
                   ![job_id].completed_at = Some("utcnow")]
       ELSE UNCHANGED <<websites, added, scrape_jobs>>
    /\ UNCHANGED <<comparisons, last, prev, accepted>>
    /\ UNCHANGED <<placesVars, sessionVars>>

(* The scraper has raised: except Exception *)

scrape_failed(job_id) ==
    /\ tasks[job_id] = "scraping"
    /\ tasks' = [tasks EXCEPT ![job_id] = "ended"]
    /\ scrape_jobs' = [scrape_jobs EXCEPT
           ![job_id].status = "failed",
           ![job_id].error_message = Some("str(e)")]
    /\ UNCHANGED added
    /\ UNCHANGED <<eloVars, placesVars, sessionVars>>

ScrapeNext ==
    \/ \E url \in Urls(websites) : create_website(url)
    \/ start_scrape_job
    \/ \E job_id \in DOMAIN scrape_jobs : run_scrape_job(job_id)
    \/ \E job_id \in DOMAIN scrape_jobs, data \in ScrapeResults(websites) :
           scraped(job_id, data)
    \/ \E job_id \in DOMAIN scrape_jobs : scrape_failed(job_id)

----------------------------------------------------------------------------
Next ==
    \/ \E url \in Urls(websites) : create_website(url)
    \/ get_comparison_pair
    \/ \E a_id \in WebsiteIds, b_id \in WebsiteIds, winner_id \in WinnerIds :
           submit_comparison(a_id, b_id, winner_id)

----------------------------------------------------------------------------
(* search_places_text (services/google_places.py) *)

(* The arguments of a call; language_code is left at its default by every
   caller *)

Arguments(query, min_rating) ==
    [query |-> query, min_rating |-> min_rating, language_code |-> "de"]

NoArguments == Arguments("", None)

PlainArgs == {Arguments("cafe", None)}

SearchArgs == {Arguments("cafe", None), Arguments("bar", Some(4))}

(* A raw place of a response: each of id, displayName and userRatingCount
   may be absent *)

RawCounts == {None} \cup {Some(c) : c \in 0..CountMax}

Complete(count) ==
    [id |-> Some("id"), displayName |-> Some("name"),
     userRatingCount |-> count]

Bare == [id |-> None, displayName |-> None, userRatingCount |-> None]

(* Complete places of every rating count *)

RawPlaces == {Complete(count) : count \in RawCounts}

(* Places that lack a field *)

SparsePlaces ==
    {Complete(Some(1)), Complete(None), Bare,
     [Complete(Some(1)) EXCEPT !.id = None],
     [Complete(Some(1)) EXCEPT !.displayName = None]}

Pages(places) == UNION {[1..n -> places] : n \in 0..PageSizeMax}

RawPages == Pages(RawPlaces)

SparsePages == Pages(SparsePlaces)

(* nextPageToken of a response: absent, or an opaque string, named here by
   the number of the page it leads to *)

PageTokens(pages) == {None, Some(Len(pages) + 2)}

(* place.get("userRatingCount", 0) *)

RatingCountOf(place) ==
    IF place.userRatingCount = None THEN 0 ELSE place.userRatingCount[1]

(* place.get("id", "") *)

PlaceIdOf(place) == IF place.id = None THEN "" ELSE place.id[1]

(* place.get("displayName", {}).get("text", "Unknown") *)

NameOf(place) ==
    IF place.displayName = None THEN "Unknown" ELSE place.displayName[1]

(* The PlaceResult objects of one page, appended after the n already held;
   seq is the position in fetch order and stands for the object's identity *)

(* Variant of ParsePage that skips the places without a displayName *)

ParsePage_named_only(page, n) ==
    LET named == SelectSeq([i \in 1..Len(page) |-> i],
                           LAMBDA i : page[i].displayName # None)
    IN [j \in 1..Len(named) |->
           [seq |-> n + named[j],
            google_place_id |-> PlaceIdOf(page[named[j]]),
            name |-> NameOf(page[named[j]]),
            rating_count |-> RatingCountOf(page[named[j]]), rank |-> 0]]

ParsePage(page, n) ==
    [i \in 1..Len(page) |->
        [seq |-> n + i, google_place_id |-> PlaceIdOf(page[i]),
         name |-> NameOf(page[i]),
         rating_count |-> RatingCountOf(page[i]), rank |-> 0]]

(* all_places.sort(key=lambda p: p.rating_count, reverse=True): a stable
   sort, equal keys keep their order *)

(* Variant of the insertion that puts a record before its equals *)

RECURSIVE InsertDesc_before_equals(_, _)
InsertDesc_before_equals(s, x) ==
    IF s = <<>> THEN <<x>>
    ELSE IF Head(s).rating_count > x.rating_count
         THEN <<Head(s)>> \o InsertDesc_before_equals(Tail(s), x)
         ELSE <<x>> \o s

RECURSIVE InsertDesc(_, _)
InsertDesc(s, x) ==
    IF s = <<>> THEN <<x>>
    ELSE IF Head(s).rating_count >= x.rating_count
         THEN <<Head(s)>> \o InsertDesc(Tail(s), x)
         ELSE <<x>> \o s

(* Variant of the sort without reverse=True *)

RECURSIVE InsertAsc(_, _)
InsertAsc(s, x) ==
    IF s = <<>> THEN <<x>>
    ELSE IF Head(s).rating_count <= x.rating_count
         THEN <<Head(s)>> \o InsertAsc(Tail(s), x)
         ELSE <<x>> \o s

RECURSIVE SortAscending(_)
SortAscending(s) ==
    IF s = <<>> THEN <<>>
    ELSE InsertAsc(SortAscending(SubSeq(s, 1, Len(s) - 1)), s[Len(s)])

RECURSIVE SortByRatingCount(_)
SortByRatingCount(s) ==
    IF s = <<>> THEN <<>>
    ELSE InsertDesc(SortByRatingCount(SubSeq(s, 1, Len(s) - 1)), s[Len(s)])

(* for idx, place in enumerate(all_places): place.rank = idx + 1 *)

AssignRanks(s) == [i \in 1..Len(s) |-> [s[i] EXCEPT !.rank = i]]

(* all_places[:max_results], for max_results >= 0 *)

(* Variant of Truncate that returns the whole list *)

Truncate_missing(s, n) == s

Truncate(s, n) == SubSeq(s, 1, IF Len(s) < n THEN Len(s) ELSE n)

NoError == [kind |-> "none", detail_len |-> 0]

NoResponse == [status |-> 0, results |-> <<>>, search_query_id |-> None]

InitPlaces ==
    /\ caller = "none"
    /\ search_queries = <<>>
    /\ place_rows = <<>>
    /\ http = NoResponse
    /\ pc = "idle"
    /\ args = NoArguments
    /\ max_results = 0
    /\ all_places = <<>>
    /\ next_page_token = None
    /\ requests = <<>>
    /\ fetched = <<>>
    /\ responses = <<>>
    /\ api_key = FALSE
    /\ result = <<>>
    /\ error = NoError

(* What a page request ended in: an HTTP response (its status, the length
   of its text and, on 200, its nextPageToken) or a transport failure (the
   length of the exception's message) *)

HttpResponse(status, text_len, token) ==
    [kind |-> "http", status |-> status, text_len |-> text_len,
     token |-> token]

TransportFailure(kind, text_len) ==
    [kind |-> kind, status |-> 0, text_len |-> text_len, token |-> None]

(* The code after the while loop: sort, rank, return the first max_results *)

(* Variant of Finish that cuts the list before it sorts it *)

Finish_truncates_first(places, n) ==
    /\ all_places' = AssignRanks(SortByRatingCount(places))
    /\ result' = AssignRanks(SortByRatingCount(Truncate(places, n)))
    /\ pc' = "returned"

Finish(places, n) ==
    LET ranked == AssignRanks(SortByRatingCount(places))
    IN
    /\ all_places' = ranked
    /\ result' = Truncate(ranked, n)
    /\ pc' = "returned"

(* aggregate_places_endpoint (api/aggregation.py) around aggregate_places,
   which calls search_places_text and wraps its list: what the endpoint
   does once the list is returned, and once the call has raised *)

(* The id the flush gives the new SearchQuery row *)

SearchQueryId == Len(search_queries) + 1

SearchQueryRow(a, total_count) ==
    [id |-> SearchQueryId, query |-> a.query, min_rating |-> a.min_rating,
     results_count |-> total_count]

PlaceRow(place) ==
    [search_query_id |-> SearchQueryId,
     google_place_id |-> place.google_place_id, name |-> place.name,
     rating_count |-> place.rating_count, rank |-> place.rank]

(* add, flush, add ..., commit, return *)

Persist(a, returned) ==
    /\ search_queries' =
           Append(search_queries, SearchQueryRow(a, Len(returned)))
    /\ place_rows' =
           place_rows \o [i \in 1..Len(returned) |-> PlaceRow(returned[i])]
    /\ http' = [status |-> 200, results |-> returned,
                search_query_id |-> Some(SearchQueryId)]

(* except QuotaExceededError / except GooglePlacesError: HTTPException *)

(* Variant of StatusOf with the clause for GooglePlacesError first: it
   catches the subclass as well *)

StatusOf_base_class_first(kind) == 500

StatusOf(kind) == IF kind = "QuotaExceededError" THEN 429 ELSE 500

(* Variant of Fail that commits a SearchQuery row for the failed search *)

Fail_keeps_query(a, kind) ==
    /\ search_queries' = Append(search_queries, SearchQueryRow(a, 0))
    /\ UNCHANGED place_rows
    /\ http' = [NoResponse EXCEPT !.status = StatusOf(kind)]

Fail(a, kind) ==
    /\ http' = [NoResponse EXCEPT !.status = StatusOf(kind)]
    /\ UNCHANGED <<search_queries, place_rows>>

(* What the caller c does with the returned list, and with the exception *)

Returns(c, a, returned) ==
    IF c = "endpoint" THEN Persist(a, returned) ELSE UNCHANGED endpointVars

Raises(c, a, kind) ==
    IF c = "endpoint" THEN Fail(a, kind) ELSE UNCHANGED endpointVars

(* The body built at the top of the loop: minRating only when min_rating
   is not None, pageToken only when next_page_token is set; an absent key
   is None here *)

(* Variant of RequestBody that sends minRating with the first page only *)

RequestBody_first_page_filter(a, token) ==
    [textQuery |-> a.query, languageCode |-> a.language_code,
     minRating |-> IF token = None THEN a.min_rating ELSE None,
     pageToken |-> token]

RequestBody(a, token) ==
    [textQuery |-> a.query, languageCode |-> a.language_code,
     minRating |-> a.min_rating, pageToken |-> token]

(* client.post with that body *)

Post(a, token) ==
    /\ requests' = Append(requests, RequestBody(a, token))
    /\ pc' = "awaiting"

(* The call, up to its first await: the credential check, the first loop
   test and the first request *)

(* Variant of Call that never looks at the credential *)

Call_without_check(c, key_configured, a, n) ==
    /\ pc = "idle"
    /\ caller' = c
    /\ args' = a
    /\ max_results' = n
    /\ next_page_token' = None
    /\ fetched' = <<>>
    /\ responses' = <<>>
    /\ api_key' = key_configured
    /\ IF 0 < n
       THEN /\ Post(a, None)
            /\ UNCHANGED <<all_places, result, error, endpointVars>>
       ELSE /\ Finish(<<>>, n)
            /\ Returns(c, a, result')
            /\ UNCHANGED <<requests, error>>
    /\ UNCHANGED <<eloVars, sessionVars, scrapeVars>>

Call(c, key_configured, a, n) ==
    /\ pc = "idle"
    /\ caller' = c
    /\ args' = a
    /\ max_results' = n
    /\ next_page_token' = None
    /\ fetched' = <<>>
    /\ responses' = <<>>
    /\ api_key' = key_configured
    /\ IF ~key_configured
       THEN /\ pc' = "raised"
            /\ error' = [kind |-> "GooglePlacesError", detail_len |-> 0]
            /\ Raises(c, a, "GooglePlacesError")
            /\ UNCHANGED <<all_places, requests, result>>
       ELSE IF 0 < n
       THEN /\ Post(a, None)
            /\ UNCHANGED <<all_places, result, error, endpointVars>>
       ELSE /\ Finish(<<>>, n)
            /\ Returns(c, a, result')
            /\ UNCHANGED <<requests, error>>
    /\ UNCHANGED <<eloVars, sessionVars, scrapeVars>>

(* Whether the loop goes round again after a page: not after the break
   (no token, or an empty page), and not once the while condition fails *)

(* Variant of Continues for a loop written "while True" *)

Continues_without_cap(count, n, page, token) ==
    ~(token = None \/ Len(page) = 0)

(* Variant of Continues without the test for an empty page *)

Continues_on_empty_page(count, n, page, token) ==
    token # None /\ count < n

Continues(count, n, page, token) ==
    ~(token = None \/ Len(page) = 0) /\ count < n

(* A 200 response: parse the page, take the token, leave the loop or post
   the next request *)

Response200(page, token) ==
    LET places == all_places \o ParsePage(page, Len(all_places))
    IN
    /\ pc = "awaiting"
    /\ fetched' = Append(fetched, page)
    /\ responses' = Append(responses, HttpResponse(200, 0, token))
    /\ next_page_token' = token
    /\ IF Continues(Len(places), max_results, page, token)
       THEN /\ all_places' = places
            /\ Post(args, token)
            /\ UNCHANGED <<result, endpointVars>>
       ELSE /\ Finish(places, max_results)
            /\ Returns(caller, args, result')
            /\ UNCHANGED requests
    /\ UNCHANGED <<caller, args, max_results, api_key, error>>
    /\ UNCHANGED <<eloVars, sessionVars, scrapeVars>>

(* raise: the exception leaves search_places_text, its locals are gone *)

Raise(response, kind, detail_len) ==
    /\ pc = "awaiting"
    /\ pc' = "raised"
    /\ responses' = Append(responses, response)
    /\ error' = [kind |-> kind, detail_len |-> detail_len]
    /\ Raises(caller, args, kind)
    /\ UNCHANGED caller
    /\ UNCHANGED <<args, max_results, all_places, next_page_token,
                   requests, fetched, api_key, result>>
    /\ UNCHANGED <<eloVars, sessionVars, scrapeVars>>

(* status 429 *)

(* Variant of Response429 that sends the request again *)

Response429_retries ==
    /\ pc = "awaiting"
    /\ responses' = Append(responses, HttpResponse(429, 0, None))
    /\ Post(args, next_page_token)
    /\ UNCHANGED <<caller, endpointVars>>
    /\ UNCHANGED <<args, max_results, all_places, next_page_token, fetched,
                   api_key, result, error>>
    /\ UNCHANGED <<eloVars, sessionVars, scrapeVars>>

Response429 == Raise(HttpResponse(429, 0, None), "QuotaExceededError", 0)

(* any other status: response.text[:200], or "Unknown error" *)

TextLens == {0, 1, 200, 201}

DetailOf(text_len) ==
    IF text_len = 0 THEN 13 ELSE IF text_len < 200 THEN text_len ELSE 200

OtherStatuses == {403, 500}

ResponseOther(status, text_len) ==
    Raise(HttpResponse(status, text_len, None), "GooglePlacesError",
          DetailOf(text_len))

(* httpx.TimeoutException: a fixed message, no upstream text *)

Timeout == Raise(TransportFailure("timeout", 0), "GooglePlacesError", 0)

(* httpx.RequestError: the message carries str(e) whole *)

RequestError(text_len) ==
    Raise(TransportFailure("request_error", text_len), "GooglePlacesError",
          text_len)

PlacesNext ==
    \/ \E key_configured \in BOOLEAN, a \in PlainArgs,
          n \in 0..MaxResultsBound :
           Call("direct", key_configured, a, n)
    \/ \E page \in RawPages, token \in PageTokens(fetched) :
           Response200(page, token)
    \/ Response429
    \/ \E status \in OtherStatuses, text_len \in TextLens :
           ResponseOther(status, text_len)
    \/ Timeout
    \/ \E text_len \in TextLens : RequestError(text_len)

(* The calls of the endpoint, with either set of arguments and answered
   with pages of places that lack fields.  aggregate_places passes
   max_results=60; the positive values up to MaxResultsBound stand for it *)

AggregateNext ==
    \/ \E key_configured \in BOOLEAN, a \in SearchArgs,
          n \in 1..MaxResultsBound :
           Call("endpoint", key_configured, a, n)
    \/ \E page \in SparsePages, token \in PageTokens(fetched) :
           Response200(page, token)
    \/ Response429
    \/ \E status \in OtherStatuses, text_len \in TextLens :
           ResponseOther(status, text_len)
    \/ Timeout
    \/ \E text_len \in TextLens : RequestError(text_len)

----------------------------------------------------------------------------
Init == InitElo /\ InitSessions /\ InitScrape /\ InitPlaces

Spec == Init /\ [][Next]_vars

ConcurrentSpec == Init /\ [][ConcurrentNext]_vars

ScrapeSpec == Init /\ [][ScrapeNext]_vars

PlacesSpec == Init /\ [][PlacesNext]_vars

(* Every page request completes: the client is created with timeout=30.0,
   so a posted request ends in a response, an error or a timeout.  The
   pages are of every size; what their places hold plays no part in how
   long the loop runs *)

PlainPages == Pages({Complete(Some(1))})

Completes ==
    \/ \E page \in PlainPages, token \in PageTokens(fetched) :
           Response200(page, token)
    \/ Response429
    \/ \E status \in OtherStatuses, text_len \in TextLens :
           ResponseOther(status, text_len)
    \/ Timeout
    \/ \E text_len \in TextLens : RequestError(text_len)

LiveNext ==
    \/ \E key_configured \in BOOLEAN, a \in PlainArgs,
          n \in 0..MaxResultsBound :
           Call("direct", key_configured, a, n)
    \/ Completes

PlacesLiveSpec == Init /\ [][LiveNext]_vars /\ WF_vars(Completes)

AggregateSpec == Init /\ [][AggregateNext]_vars

----------------------------------------------------------------------------
(* Properties of the rating engine and the selector, under Spec *)

Abs(x) == IF x < 0 THEN 0 - x ELSE x

(* 1e-9, in units of 1/Scale *)

Tolerance == Scale \div 1000000000

Submitted == last.op = "submit_comparison"

Accepted == Submitted /\ last.status = 200

Decisive == Accepted /\ last.req.winner_id \notin {None, Some(0)}

A == last.req.website_a_id

B == last.req.website_b_id

Counters(row) == <<row.matches_played, row.wins, row.losses>>

RECURSIVE SumOffsets(_, _)
SumOffsets(ws, n) ==
    IF n = 0 THEN 0
    ELSE (ws[n].elo_rating - 1000 * Scale) + SumOffsets(ws, n - 1)

(* C1: every website has wins + losses = matches_played, and a skip or a
   rejected submission changes none of the three counters of any website *)
C1_CountersConsistent ==
    /\ \A i \in DOMAIN websites :
           websites[i].wins + websites[i].losses = websites[i].matches_played
    /\ (Submitted /\ (last.status # 200 \/ last.req.winner_id = None))
           => /\ DOMAIN websites = DOMAIN prev.websites
              /\ \A i \in DOMAIN websites :
                     Counters(websites[i]) = Counters(prev.websites[i])

(* C1 witness: a website that has both won and lost a comparison against
   another website *)
C1_Witness ==
    /\ \E i \in DOMAIN websites :
           websites[i].wins >= 1 /\ websites[i].losses >= 1
    /\ \A k \in DOMAIN comparisons :
           comparisons[k].website_a_id # comparisons[k].website_b_id

(* C2: matches_played of every website is the number of accepted
   submissions with a winner_id (not None) in which it was website_a or
   website_b, and no counter is below its previous value *)
C2_MatchesPlayedCounts ==
    /\ \A i \in DOMAIN websites :
           websites[i].matches_played =
               Cardinality({k \in DOMAIN accepted :
                   /\ accepted[k].winner_id # None
                   /\ i \in {accepted[k].website_a_id,
                             accepted[k].website_b_id}})
    /\ \A i \in DOMAIN prev.websites :
           /\ websites[i].matches_played >= prev.websites[i].matches_played
           /\ websites[i].wins >= prev.websites[i].wins
           /\ websites[i].losses >= prev.websites[i].losses

(* C3: a submission with no winner leaves every row as it was and records
   both deltas as 0 *)
C3_SkipIsNoOp ==
    (Accepted /\ last.req.winner_id = None)
        => /\ websites = prev.websites
           /\ comparisons = Append(prev.comparisons, last.resp)
           /\ last.resp.elo_change_a = 0
           /\ last.resp.elo_change_b = 0

(* C3 witness: a skip between two websites whose ratings differ *)
C3_Witness ==
    /\ Accepted
    /\ last.req.winner_id = None
    /\ websites[A].elo_rating # websites[B].elo_rating
    /\ websites[A].matches_played >= 1

(* C4: an accepted submission has no winner_id or that of website_a or
   website_b (a winner_id that is neither is refused), and a refused
   submission changes neither table *)
C4_InvalidWinnerRejected ==
    /\ Accepted => last.req.winner_id \in {None, Some(A), Some(B)}
    /\ (Submitted /\ last.status # 200)
           => websites = prev.websites /\ comparisons = prev.comparisons

(* C5: the two deltas of a decisive submission sum to 0 within 1e-9, and
   the ratings of all websites still sum to 1000 per website *)
C5_ZeroSum ==
    /\ Decisive =>
           Abs(last.resp.elo_change_a + last.resp.elo_change_b) <= Tolerance
    /\ Abs(SumOffsets(websites, Len(websites))) <= Tolerance

(* C5 witness: a decisive submission between differently rated websites,
   won by the lower rated one *)
C5_Witness ==
    /\ Decisive
    /\ A # B
    /\ last.req.winner_id = Some(B)
    /\ prev.websites[B].elo_rating < prev.websites[A].elo_rating

(* C6: a decisive submission computes the deltas from expected_a with K,
   adds them to the two ratings, adds 1 to the winner's wins, to the loser's
   losses and to both matches_played, and changes no other counter *)
C6_DecisiveUpdateRule ==
    Decisive =>
        LET ra == prev.websites[A].elo_rating
            rb == prev.websites[B].elo_rating
            ea == (Scale * Scale) \div (Scale + Pow10((rb - ra) \div 400))
            eb == Scale - ea
            aWins == last.req.winner_id = Some(A)
            da == IF aWins THEN 32 * (Scale - ea) ELSE 32 * (0 - ea)
            db == IF aWins THEN 32 * (0 - eb) ELSE 32 * (Scale - eb)
            W == IF aWins THEN A ELSE B
            L == IF aWins THEN B ELSE A
        IN  /\ last.resp.elo_change_a = da
            /\ last.resp.elo_change_b = db
            /\ websites[A].elo_rating = ra + da
            /\ websites[B].elo_rating = rb + db
            /\ websites[W].wins = prev.websites[W].wins + 1
            /\ websites[L].losses = prev.websites[L].losses + 1
            /\ websites[W].losses = prev.websites[W].losses
            /\ websites[L].wins = prev.websites[L].wins
            /\ websites[A].matches_played = prev.websites[A].matches_played + 1
            /\ websites[B].matches_played = prev.websites[B].matches_played + 1
            /\ \A i \in DOMAIN websites \ {A, B} :
                   websites[i] = prev.websites[i]

(* C7: between two distinct websites of equal rating the winner's delta is
   +16 and the loser's -16; two fresh websites with A winning end at 1016 and
   984, A.wins = 1, B.losses = 1, A.losses = B.wins = 0, both played 1 *)
C7_EqualRatings ==
    (Decisive /\ A # B
        /\ prev.websites[A].elo_rating = prev.websites[B].elo_rating)
    => LET aWins == last.req.winner_id = Some(A)
       IN  /\ last.resp.elo_change_a = (IF aWins THEN 16 ELSE -16) * Scale
           /\ last.resp.elo_change_b = (IF aWins THEN -16 ELSE 16) * Scale
           /\ (aWins /\ prev.websites[A] = NewWebsite(A)
                     /\ prev.websites[B] = NewWebsite(B))
              => /\ websites[A].elo_rating = 1016 * Scale
                 /\ websites[B].elo_rating = 984 * Scale
                 /\ Counters(websites[A]) = <<1, 1, 0>>
                 /\ Counters(websites[B]) = <<1, 0, 1>>

(* C7 witness: two fresh websites, A has just won *)
C7_Witness ==
    /\ Decisive
    /\ A # B
    /\ last.req.winner_id = Some(A)
    /\ prev.websites[A] = NewWebsite(A)
    /\ prev.websites[B] = NewWebsite(B)
    /\ websites[A].elo_rating = 1016 * Scale

(* C8: get_comparison_pair fails exactly when fewer than 2 websites are
   stored, otherwise returns two distinct stored websites, and changes
   neither table *)
C8_PairSelection ==
    last.op = "get_comparison_pair" =>
        /\ (last.status = 400) = (Len(websites) < 2)
        /\ last.status \in {200, 400}
        /\ last.status = 200 =>
               /\ last.resp.website_a # last.resp.website_b
               /\ last.resp.website_a \in DOMAIN websites
               /\ last.resp.website_b \in DOMAIN websites
        /\ websites = prev.websites
        /\ comparisons = prev.comparisons

(* C8 witness: a pair returned from a store whose websites have played *)
C8_Witness ==
    /\ last.op = "get_comparison_pair"
    /\ last.status = 200
    /\ websites[last.resp.website_a].matches_played >= 1

(* The sum of the deltas that the first n comparison records hold for
   website i: elo_change_a where it is website_a, elo_change_b where it is
   website_b *)

DeltaFor(c, i) ==
    (IF c.website_a_id = i THEN c.elo_change_a ELSE 0)
        + (IF c.website_b_id = i THEN c.elo_change_b ELSE 0)

RECURSIVE SumDeltas(_, _, _)
SumDeltas(cs, n, i) ==
    IF n = 0 THEN 0 ELSE DeltaFor(cs[n], i) + SumDeltas(cs, n - 1, i)

(* C18: an accepted submission appends exactly one Comparison record, whose
   deltas are the changes it applied to the ratings; every other request
   leaves the table as it was; records once written stay as they are; so
   every rating is 1000.0 plus the sum of the deltas recorded for it *)
C18_ComparisonLedger ==
    /\ Len(comparisons) = Len(accepted)
    /\ \A k \in DOMAIN comparisons :
           /\ comparisons[k].website_a_id = accepted[k].website_a_id
           /\ comparisons[k].website_b_id = accepted[k].website_b_id
           /\ comparisons[k].winner_id = accepted[k].winner_id
    /\ SubSeq(comparisons, 1, Len(prev.comparisons)) = prev.comparisons
    /\ Len(comparisons) =
           Len(prev.comparisons) + (IF Accepted THEN 1 ELSE 0)
    /\ Accepted =>
           /\ comparisons[Len(comparisons)] = last.resp
           /\ \A i \in DOMAIN prev.websites :
                  websites[i].elo_rating =
                      prev.websites[i].elo_rating + DeltaFor(last.resp, i)
    /\ \A i \in DOMAIN websites :
           websites[i].elo_rating =
               1000 * Scale + SumDeltas(comparisons, Len(comparisons), i)

(* C18 witness: a decisive record between two websites, still as written
   after the skip that added the second record; the ratings have moved *)
C18_Witness ==
    /\ Len(comparisons) = 2
    /\ comparisons[1].website_a_id # comparisons[1].website_b_id
    /\ comparisons[1].elo_change_a > 0
    /\ comparisons[2].winner_id = None
    /\ comparisons[2].elo_change_a = 0
    /\ websites[comparisons[1].website_a_id].elo_rating > 1000 * Scale
    /\ Accepted
    /\ prev.comparisons = <<comparisons[1]>>

----------------------------------------------------------------------------
(* Properties of submit_comparison on concurrent sessions, under
   ConcurrentSpec *)

(* The number of decisive Comparison records that name website i, counted
   once as website_a and once as website_b *)

RECURSIVE DecisiveCount(_, _, _)
DecisiveCount(cs, n, i) ==
    IF n = 0 THEN 0
    ELSE (IF Truthy(cs[n].winner_id)
          THEN (IF cs[n].website_a_id = i THEN 1 ELSE 0)
                   + (IF cs[n].website_b_id = i THEN 1 ELSE 0)
          ELSE 0)
         + DecisiveCount(cs, n - 1, i)

(* C22: with submissions overlapping on separate sessions, every website
   still has wins + losses = matches_played, and matches_played counts
   every decisive submission recorded for it, so that no increment is
   lost *)
C22_ConcurrentCounters ==
    \A i \in DOMAIN websites :
        /\ websites[i].wins + websites[i].losses = websites[i].matches_played
        /\ websites[i].matches_played =
               DecisiveCount(comparisons, Len(comparisons), i)

----------------------------------------------------------------------------
(* Properties of the scrape jobs, under ScrapeSpec *)

(* C24: a job is pending until its task starts, running while the scraper
   works, and completed or failed once the task has ended; completed_at is
   set exactly on the completed jobs; websites_found is the number of
   websites the job stored *)
C24_JobLifecycle ==
    \A job_id \in DOMAIN scrape_jobs :
        LET job == scrape_jobs[job_id]
        IN  /\ tasks[job_id] = "queued" => job.status = "pending"
            /\ tasks[job_id] = "scraping" => job.status = "running"
            /\ tasks[job_id] = "ended" =>
                   job.status \in {"completed", "failed"}
            /\ (job.completed_at # None) <=> (job.status = "completed")
            /\ job.websites_found = added[job_id]

----------------------------------------------------------------------------
(* Properties of the place aggregator, under PlacesSpec *)

Returned == pc = "returned"

RECURSIVE TotalFetched(_)
TotalFetched(pages) ==
    IF pages = <<>> THEN 0 ELSE Len(Head(pages)) + TotalFetched(Tail(pages))

(* C9: in the returned list, an earlier record has the smaller rank and a
   rating_count at least that of any later record *)
C9_RankedDescending ==
    Returned =>
        \A i \in DOMAIN result : \A j \in DOMAIN result :
            i < j => /\ result[i].rank < result[j].rank
                     /\ result[i].rating_count >= result[j].rating_count

(* C9 witness: a returned list of three records whose first was fetched
   after its second, over more than one page *)
C9_Witness ==
    /\ Returned
    /\ Len(result) >= 3
    /\ Len(fetched) >= 2
    /\ result[1].seq > result[2].seq
    /\ result[1].rating_count > result[3].rating_count

(* C10: the returned list holds at most max_results records, ranked 1..n
   in order, and exactly max_results when the fetched pages hold that many *)
C10_CappedDenseRanks ==
    Returned =>
        /\ Len(result) <= max_results
        /\ \A i \in DOMAIN result : result[i].rank = i
        /\ TotalFetched(fetched) >= max_results => Len(result) = max_results

(* C10 witness: more records fetched than max_results, so some were cut *)
C10_Witness ==
    /\ Returned
    /\ max_results >= 2
    /\ TotalFetched(fetched) > max_results
    /\ Len(result) = max_results

(* The raw records of the fetched pages, in fetch order *)

RECURSIVE Flatten(_)
Flatten(pages) ==
    IF pages = <<>> THEN <<>> ELSE Head(pages) \o Flatten(Tail(pages))

FetchedCount(k) == RatingCountOf(Flatten(fetched)[k])

ReturnedSeqs == {result[i].seq : i \in DOMAIN result}

(* C11: the ranking is over all fetched pages together: with fewer than
   max_results records fetched every one of them is returned; the record of
   rank 1 has the greatest rating_count of all records fetched; and no
   record cut off has a greater rating_count than a returned one *)
C11_GlobalRanking ==
    Returned =>
        LET total == TotalFetched(fetched)
        IN
        /\ \A i \in DOMAIN result :
               /\ result[i].seq \in 1..total
               /\ result[i].rating_count = FetchedCount(result[i].seq)
        /\ total < max_results =>
               /\ Len(result) = total
               /\ ReturnedSeqs = 1..total
        /\ result # <<>> =>
               /\ result[1].rank = 1
               /\ \A k \in 1..total :
                      result[1].rating_count >= FetchedCount(k)
        /\ \A k \in (1..total) \ ReturnedSeqs : \A i \in DOMAIN result :
               FetchedCount(k) <= result[i].rating_count

(* C11 witness: three pages fetched, the record of rank 1 came with the
   last of them, and a record of the first page was cut off *)
C11_Witness ==
    /\ Returned
    /\ Len(fetched) >= 3
    /\ result # <<>>
    /\ result[1].seq > TotalFetched(SubSeq(fetched, 1, 2))
    /\ 1 \notin ReturnedSeqs
    /\ Len(fetched[1]) >= 1

(* C12: returned records of equal rating_count are in fetch order, earlier
   page first and page order within a page *)
C12_StableTies ==
    Returned =>
        \A i \in DOMAIN result : \A j \in DOMAIN result :
            (i < j /\ result[i].rating_count = result[j].rating_count)
                => result[i].seq < result[j].seq

(* C12 witness: a tie between records of two pages and a tie within one
   page, below a record fetched later than all of them *)
C12_Witness ==
    /\ Returned
    /\ Len(fetched) >= 2
    /\ Len(result) >= 3
    /\ result[2].rating_count = result[3].rating_count
    /\ result[2].seq <= Len(fetched[1])
    /\ result[3].seq > Len(fetched[1])
    /\ result[1].seq > result[3].seq

Raised == pc = "raised"

(* C13: a page request answered 429 is the last one: the call has failed
   with QuotaExceededError, has returned no record, and no request follows *)
C13_QuotaAborts ==
    \A k \in DOMAIN responses :
        (responses[k].kind = "http" /\ responses[k].status = 429) =>
            /\ k = Len(responses)
            /\ Len(requests) = k
            /\ Raised
            /\ error.kind = "QuotaExceededError"
            /\ result = <<>>

(* C13 witness: the third request is answered 429 after two pages with
   records *)
C13_Witness ==
    /\ Len(responses) = 3
    /\ responses[3].status = 429
    /\ Len(fetched) = 2
    /\ Len(fetched[1]) >= 1
    /\ Len(fetched[2]) >= 1
    /\ Raised

(* C14: a request that ended in a status other than 200 and 429, or in a
   transport failure, fails the call with a GooglePlacesError that is not
   the quota error and whose upstream detail text is at most 200 characters
   long *)
C14_ServiceErrorBounded ==
    \A k \in DOMAIN responses :
        (responses[k].kind # "http" \/ responses[k].status \notin {200, 429})
            => /\ Raised
               /\ error.kind = "GooglePlacesError"
               /\ error.detail_len <= 200

(* C15: without the credential the call fails with the plain
   GooglePlacesError before any page request, whatever max_results is *)
C15_NotConfiguredFailsFirst ==
    (pc # "idle" /\ ~api_key) =>
        /\ Raised
        /\ error.kind = "GooglePlacesError"
        /\ requests = <<>>
        /\ responses = <<>>
        /\ result = <<>>

(* C15 witness: a call for the largest max_results without the credential *)
C15_Witness ==
    /\ Raised
    /\ ~api_key
    /\ max_results = MaxResultsBound
    /\ requests = <<>>

(* C20: after a page received with status 200 a further request follows
   exactly when fewer than max_results records are held, the page came with
   a token and the page was not empty; otherwise the call has gone on to
   sort, rank and return.  With max_results <= 0 no request is made *)
C20_LoopContinuation ==
    /\ \A k \in DOMAIN fetched :
           LET goes_on == /\ TotalFetched(SubSeq(fetched, 1, k)) < max_results
                          /\ responses[k].token # None
                          /\ Len(fetched[k]) >= 1
           IN  /\ responses[k].status = 200
               /\ goes_on <=> Len(requests) > k
               /\ ~goes_on => (k = Len(responses) /\ Returned)
    /\ (pc # "idle" /\ api_key /\ max_results <= 0) =>
           /\ requests = <<>>
           /\ Returned
           /\ result = <<>>

(* C20 witness: the call went on after its first page and stopped at an
   empty second page that came with a token, below max_results *)
C20_Witness ==
    /\ Returned
    /\ Len(fetched) = 2
    /\ Len(requests) = 2
    /\ fetched[2] = <<>>
    /\ responses[2].token # None
    /\ TotalFetched(fetched) < max_results

(* C21: the call makes at most max_results page requests, and once it
   awaits a page it ends, by returning or by raising, whatever the pages
   hold and even when every page comes with a token *)
C21_Terminates ==
    /\ [](Len(requests) <= max_results)
    /\ (pc = "awaiting" ~> (Returned \/ Raised))

(* C21 witness: the call has returned after max_results requests, every
   one of them answered with a single place and a token *)
C21_Witness ==
    /\ Returned
    /\ max_results = MaxResultsBound
    /\ Len(requests) = max_results
    /\ \A k \in DOMAIN responses :
           responses[k].token # None /\ Len(fetched[k]) = 1

----------------------------------------------------------------------------
(* Properties of the place aggregator and its endpoint, under AggregateSpec *)

(* C16: the accumulated list holds one record per place of every fetched
   page, whatever fields the place lacks: as many records as the pages hold
   places, the name and the identifier as received or their defaults, and
   rating_count 0 for a place without userRatingCount *)
C16_EveryPlaceAccumulated ==
    LET raw == Flatten(fetched)
    IN
    /\ Len(all_places) = TotalFetched(fetched)
    /\ \A k \in DOMAIN raw :
           \E i \in DOMAIN all_places :
               /\ all_places[i].seq = k
               /\ raw[k].userRatingCount = None
                      => all_places[i].rating_count = 0
               /\ raw[k].userRatingCount # None
                      => all_places[i].rating_count = raw[k].userRatingCount[1]
               /\ raw[k].displayName = None
                      => all_places[i].name = "Unknown"
               /\ raw[k].id = None => all_places[i].google_place_id = ""

(* C16 witness: two pages returned in full, among them a place without a
   name, one without a rating count, one without an identifier *)
C16_Witness ==
    LET raw == Flatten(fetched)
    IN
    /\ Returned
    /\ Len(fetched) >= 2
    /\ Len(result) = Len(raw)
    /\ \E k \in DOMAIN raw :
           raw[k].displayName = None /\ raw[k].id # None
    /\ \E k \in DOMAIN raw :
           raw[k].userRatingCount = None /\ raw[k].id # None
    /\ \E k \in DOMAIN raw : raw[k].id = None

(* C17: a request to the endpoint has ended either in success, with the
   ranked list in the response and one SearchQuery row and one Place row
   per returned record persisted, or in one error kind, with no list in the
   response and no row persisted, also when pages had been fetched; until
   then no row is persisted *)
C17_AllOrNothing ==
    /\ pc \in {"idle", "awaiting"} =>
           /\ http = NoResponse
           /\ search_queries = <<>>
           /\ place_rows = <<>>
    /\ Returned =>
           /\ error = NoError
           /\ http.status = 200
           /\ http.results = result
           /\ \A i \in DOMAIN result : result[i].rank = i
           /\ Len(search_queries) = 1
           /\ search_queries[1].query = args.query
           /\ search_queries[1].results_count = Len(result)
           /\ http.search_query_id = Some(search_queries[1].id)
           /\ Len(place_rows) = Len(result)
           /\ \A i \in DOMAIN result :
                  /\ place_rows[i].search_query_id = search_queries[1].id
                  /\ place_rows[i].rank = result[i].rank
                  /\ place_rows[i].rating_count = result[i].rating_count
                  /\ place_rows[i].name = result[i].name
                  /\ place_rows[i].google_place_id = result[i].google_place_id
    /\ Raised =>
           /\ error.kind \in {"QuotaExceededError", "GooglePlacesError"}
           /\ http.status \in {429, 500}
           /\ http.results = <<>>
           /\ result = <<>>
           /\ search_queries = <<>>
           /\ place_rows = <<>>

(* C17 witness: a successful request whose three records came over two
   pages and are persisted under the new search query *)
C17_Witness ==
    /\ Returned
    /\ caller = "endpoint"
    /\ Len(fetched) = 2
    /\ Len(result) = 3
    /\ Len(place_rows) = 3
    /\ Len(search_queries) = 1
    /\ place_rows[1].rating_count > place_rows[3].rating_count

(* C19: page requests go out one at a time, each after the response to the
   one before; the first carries no page token, every later one carries the
   token that came with the page before it; all carry the query, the
   language code and the minimum rating of the call *)
C19_SequentialPaging ==
    /\ Len(requests) = Len(responses) + (IF pc = "awaiting" THEN 1 ELSE 0)
    /\ \A k \in DOMAIN requests :
           /\ requests[k].textQuery = args.query
           /\ requests[k].languageCode = args.language_code
           /\ requests[k].minRating = args.min_rating
           /\ k = 1 => requests[k].pageToken = None
           /\ k > 1 =>
                  /\ responses[k - 1].kind = "http"
                  /\ responses[k - 1].status = 200
                  /\ responses[k - 1].token # None
                  /\ requests[k].pageToken = responses[k - 1].token

(* C19 witness: three requests of a call with a minimum rating, the second
   and the third carrying different tokens *)
C19_Witness ==
    /\ Len(requests) = 3
    /\ args.min_rating # None
    /\ requests[2].pageToken # None
    /\ requests[3].pageToken # requests[2].pageToken
    /\ requests[3].pageToken = responses[2].token

(* C23: a request that failed with QuotaExceededError is answered 429, and
   one that failed with any other GooglePlacesError, a service error or the
   missing credential, is answered 500; so 429 is answered exactly to a page
   request that came back 429 *)
C23_FailureKindsDistinct ==
    Raised =>
        LET quota == /\ responses # <<>>
                     /\ responses[Len(responses)].kind = "http"
                     /\ responses[Len(responses)].status = 429
        IN  /\ error.kind = "QuotaExceededError" => http.status = 429
            /\ error.kind = "GooglePlacesError" => http.status = 500
            /\ quota <=> http.status = 429
            /\ ~api_key => http.status = 500

(* C23 witness: the endpoint answers 429 to a quota rejection of the second
   page request *)
C23_Witness ==
    /\ Raised
    /\ caller = "endpoint"
    /\ http.status = 429
    /\ error.kind = "QuotaExceededError"
    /\ Len(responses) = 2
    /\ Len(fetched) = 1

====
